---- MODULE Spec2Model ----
(***************************************************************************)
(* Model of the Telegram RAG bot of cmd/aibot.go: the three handlers that  *)
(* aibotCmd.Run registers (/start, OnText, OnDocument), the upload         *)
(* functions processAndUploadPDF / JSON / XML, the provider wrappers       *)
(* (getQueryEmbeddingFromOpenAI, searchPinecone, upsertVectorToPinecone,   *)
(* generateFinalAnswerFromOpenAI) and the pure helpers (isURL, isPDF,      *)
(* isJSON, isXML, cleanText).                                              *)
(*                                                                         *)
(* Strings the code inspects character by character (file names, URLs,     *)
(* offer fields) are sequences of one-character strings.  Literal message  *)
(* texts are single tokens; the Ukrainian literals of the source are       *)
(* written in English here, each with its source line in the model map.    *)
(* A formatted string (fmt.Sprintf) is the concatenation of its pieces.    *)
(*                                                                         *)
(* A handler takes one step per external call; the code between two calls  *)
(* (classification, decoding, the reply that follows a failure) belongs to *)
(* the step of the call before it.  Handlers share no program state (the   *)
(* session map is never read or written), so Spec runs them one event at   *)
(* a time; the clock and the ids of the written records outlive an event.  *)
(***************************************************************************)
(* Source files: src/cmd/aibot.go holds the handlers, the XML upload and   *)
(* the provider wrappers; processAndUploadPDF, processAndUploadJSON and    *)
(* extractTextFromPDF, which it calls, are in src/unnamed/part_000.        *)
(***************************************************************************)
EXTENDS Naturals, Sequences, FiniteSets

\* ------------------------------------------------------------------ bounds
MaxStem == 1          \* longest file-name stem the handlers receive
MaxClassifyStem == 2  \* longest stem given to the classifier on its own
MaxOffers == 1        \* most offers in an XML catalog
MaxMatches == 2       \* most matches a search returns in the model
MaxChoices == 2       \* most choices a completion returns
NumVectors == 2       \* distinct embedding vectors the provider returns
MaxClock == 1         \* last Unix second of the run
MaxEvents == 2        \* events the process handles in the run
MaxCleanLen == 4      \* longest string given to cleanText on its own

\* ------------------------------------------------------- program constants
TopK == 5

\* ------------------------------------------------------------ sequences
Min(a, b) == IF a < b THEN a ELSE b

RECURSIVE SeqsUpTo(_, _)
\* every sequence over S of length at most n
SeqsUpTo(S, n) ==
    IF n = 0 THEN {<<>>}
    ELSE LET shorter == SeqsUpTo(S, n - 1)
         IN  shorter \cup {Append(s, x) : s \in shorter, x \in S}

RECURSIVE Flatten(_)
\* concatenation of a sequence of sequences
Flatten(ss) == IF ss = <<>> THEN <<>> ELSE Head(ss) \o Flatten(Tail(ss))

\* strings.HasPrefix
HasPrefix(s, prefix) ==
    Len(s) >= Len(prefix) /\ SubSeq(s, 1, Len(prefix)) = prefix

\* s[len(s)-n:], defined when len(s) >= n
LastN(s, n) == SubSeq(s, Len(s) - n + 1, Len(s))

\* whether part occurs in s as a contiguous run
Contains(s, part) ==
    \E i \in 0..(Len(s) - Len(part)) : SubSeq(s, i + 1, i + Len(part)) = part

\* ------------------------------------------------ URL and file classifier
Http == <<"h", "t", "t", "p", ":", "/", "/">>
Https == <<"h", "t", "t", "p", "s", ":", "/", "/">>
ExtPDF == <<".", "p", "d", "f">>
ExtJSON == <<".", "j", "s", "o", "n">>
ExtXML == <<".", "x", "m", "l">>

isURL(input) == HasPrefix(input, Http) \/ HasPrefix(input, Https)

isPDF(fileName) == Len(fileName) > 4 /\ LastN(fileName, 4) = ExtPDF

isJSON(fileName) == Len(fileName) > 5 /\ LastN(fileName, 5) = ExtJSON

isXML(fileName) == Len(fileName) > 4 /\ LastN(fileName, 4) = ExtXML

\* the format the OnDocument handler picks: its if / else-if chain
ClassifyDocument(fileName) ==
    IF isPDF(fileName) THEN "pdf"
    ELSE IF isJSON(fileName) THEN "json"
    ELSE IF isXML(fileName) THEN "xml"
    ELSE "unknown"

\* the format the URL branch of the OnText handler picks
ClassifyURL(url) ==
    IF isXML(url) THEN "xml"
    ELSE IF isJSON(url) THEN "json"
    ELSE IF isPDF(url) THEN "pdf"
    ELSE "unknown"

\* ------------------------------------------------------------- cleanText
RECURSIVE IndexOf_Last(_, _, _)
IndexOf_Last(s, c, from) ==
    IF from > Len(s) THEN 0
    ELSE IF IndexOf_Last(s, c, from + 1) # 0 THEN IndexOf_Last(s, c, from + 1)
    ELSE IF s[from] = c THEN from
    ELSE 0

RECURSIVE IndexOf(_, _, _)
\* least i >= from with s[i] = c, or 0
IndexOf(s, c, from) ==
    IF from > Len(s) THEN 0
    ELSE IF s[from] = c THEN from
    ELSE IndexOf(s, c, from + 1)

RECURSIVE StripFrom(_, _)
\* regexp "<[^>]*>" replaced by "" from position i on: leftmost match first,
\* each match running from a '<' to the first '>' after it
StripFrom(s, i) ==
    IF i > Len(s) THEN <<>>
    ELSE IF s[i] = "<" /\ IndexOf(s, ">", i + 1) # 0
         THEN StripFrom(s, IndexOf(s, ">", i + 1) + 1)
         ELSE <<s[i]>> \o StripFrom(s, i + 1)

cleanText(input) == StripFrom(input, 1)

\* ------------------------------------------------------------ JSON values
\* A JSON value is <<type, text>>; an object is a function from its keys.
JStr(s) == <<"string", s>>
JNum(s) == <<"number", s>>
EmptyObj == [k \in {} |-> <<>>]

\* keys in the order json.Marshal writes them (sorted)
KeyOrder == <<"file", "text", "title">>

\* json.Marshal of a string escapes '<' and '>' (HTML-safe encoding)
EscapeChar(c) ==
    IF c = "<" THEN "\\u003c" ELSE IF c = ">" THEN "\\u003e" ELSE c

MarshalValue(v) ==
    IF v[1] = "string"
    THEN <<"\"">> \o [i \in 1..Len(v[2]) |-> EscapeChar(v[2][i])] \o <<"\"">>
    ELSE v[2]

RECURSIVE MarshalFields(_, _, _)
MarshalFields(obj, i, first) ==
    IF i > Len(KeyOrder) THEN <<>>
    ELSE IF KeyOrder[i] \in DOMAIN obj
         THEN (IF first THEN <<>> ELSE <<",">>)
              \o <<"\"", KeyOrder[i], "\"", ":">> \o MarshalValue(obj[KeyOrder[i]])
              \o MarshalFields(obj, i + 1, FALSE)
         ELSE MarshalFields(obj, i + 1, first)

\* json.Marshal(map[string]interface{})
MarshalJSON(obj) == <<"{">> \o MarshalFields(obj, 1, TRUE) \o <<"}">>

\* ---------------------------------------------------------------- inputs
StemChars == {"a"}
Exts == {ExtPDF, ExtJSON, ExtXML, <<".", "t", "x", "t">>}
\* file names of attached documents, and the paths of URLs
FileNames == {stem \o ext : stem \in SeqsUpTo(StemChars, MaxStem), ext \in Exts}

QueryTexts == {<<"h", "i">>, <<"a">> \o ExtPDF}
UrlTexts == {Http \o name : name \in FileNames} \cup {Https \o <<"a">> \o ExtXML}
Texts == {<<>>} \cup QueryTexts \cup UrlTexts

\* file contents: what a download returns
JsonKeys == {"text", "title"}
JsonVals == {JStr(<<"h", "i">>), JNum(<<"7">>)}
JsonObjects == UNION {[keys -> JsonVals] : keys \in SUBSET JsonKeys}

Offer(name, description, price) ==
    [Name |-> name, Description |-> description, Price |-> price]
Offers == {Offer(<<"<", "b", ">", "W", "<", "/", "b", ">">>, <<"d">>, <<"1">>),
           Offer(<<"W">>, <<"<", "i", ">", "d", "<">>, <<"2">>)}
Catalogs == SeqsUpTo(Offers, MaxOffers)

Payload(kind, obj, offers) == [kind |-> kind, obj |-> obj, offers |-> offers]
Payloads ==
    {Payload("garbage", EmptyObj, <<>>),
     Payload("jsonNull", EmptyObj, <<>>),
     Payload("jsonArray", EmptyObj, <<>>)}
    \cup {Payload("jsonObject", obj, <<>>) : obj \in JsonObjects}
    \cup {Payload("xml", EmptyObj, offers) : offers \in Catalogs}
    \cup {Payload("xmlMalformed", EmptyObj, offers) : offers \in Catalogs}
NoBytes == Payload("none", EmptyObj, <<>>)

\* provider answers
Vectors == 1..NumVectors
NoVector == 0
MatchPool ==
    {[Id |-> <<"doc-", "0">>,
      Metadata |-> [k \in {"file", "text"} |->
                      IF k = "file" THEN JStr(<<"a">> \o ExtPDF)
                      ELSE JStr(<<"<", "b", ">">>)]],
     [Id |-> <<"doc-", "1">>, Metadata |-> EmptyObj]}
MatchLists == SeqsUpTo(MatchPool, Min(TopK, MaxMatches))
Answers == {"Paris", "Kyiv"}
ChoiceLists == SeqsUpTo(Answers, MaxChoices)

\* -------------------------------------------------------------- messages
MsgWelcome == "This chat bot was created to give information about a person and their work experience. Chat bot version: "
appVersion == "appVersion"
MsgDownloadFailed == "File download error: "
MsgUnknownFormatURL == "Unknown file format. Only XML, JSON or PDF are supported."
MsgUnknownFormatDocument == "Unknown file format. Please upload only PDF, JSON or XML."
MsgEnterQuery == "Please enter a query."
MsgEmbedFailed == "Error generating the vector through OpenAI: "
MsgNoMatches == "No relevant matches found in Pinecone."
MsgGptFailed == "GPT-4 could not generate an answer: "
MsgXmlFailed == "Error processing the XML file."
MsgXmlEmbedFailed == "Error vectorizing the text from XML."
MsgUpsertFailed == "Error uploading the data to Pinecone."
MsgXmlOk == "XML successfully uploaded and added to the vector base."
MsgPdfFailed == "Error processing the PDF file."
MsgPdfEmbedFailed == "Error vectorizing the text from PDF."
MsgPdfOk == "PDF successfully uploaded and added to the vector base."
MsgJsonFailed == "Error processing the JSON file."
MsgJsonEmbedFailed == "Error vectorizing the text from JSON."
MsgJsonUpsertFailed == "Error uploading the data from JSON to Pinecone."
MsgJsonOk == "JSON successfully uploaded and added to the vector base."
MsgJsonNoText == "JSON contains no text data to vectorize."

\* file names the URL branch passes to the upload functions
ExternalFileName(format) == <<"external_file">> \o
    (IF format = "xml" THEN ExtXML ELSE IF format = "json" THEN ExtJSON ELSE ExtPDF)

\* errors of the external calls
DownloadURLErrs == {"ErrHttpGet", "ErrStatusNotOK"}
DownloadTelegramErrs == {"ErrFileByID", "ErrHttpGet"}
EmbedErrs == {"ErrCreateEmbeddings", "ErrNoVectors"}
UpsertErrs == {"ErrClient", "ErrIndex", "ErrUpsertVectors"}
CompletionErrs == {"ErrChatCompletion"}

\* ------------------------------------------------------ document decoders
\* extractTextFromPDF: a stub, the same text for every file and never an error
extractTextFromPDF(bytes) == [text |-> <<"Text from PDF">>, err |-> FALSE]

\* json.Unmarshal into a map[string]interface{}: an object decodes to its
\* fields, null leaves the map nil, anything else is an error
jsonUnmarshal(bytes) ==
    IF bytes.kind = "jsonObject" THEN [data |-> bytes.obj, err |-> FALSE]
    ELSE IF bytes.kind = "jsonNull" THEN [data |-> EmptyObj, err |-> FALSE]
    ELSE [data |-> EmptyObj, err |-> TRUE]

TextField_AnyType(jsonData) ==
    IF "text" \in DOMAIN jsonData
    THEN [text |-> jsonData["text"][2], ok |-> TRUE]
    ELSE [text |-> <<>>, ok |-> FALSE]

TextField_Always(jsonData) ==
    IF "text" \in DOMAIN jsonData
    THEN [text |-> jsonData["text"][2], ok |-> jsonData["text"][1] = "string"]
    ELSE [text |-> <<>>, ok |-> TRUE]

\* jsonData["text"].(string)
TextField(jsonData) ==
    IF "text" \in DOMAIN jsonData /\ jsonData["text"][1] = "string"
    THEN [text |-> jsonData["text"][2], ok |-> TRUE]
    ELSE [text |-> <<>>, ok |-> FALSE]

xmlUnmarshal_Lenient(bytes) ==
    IF bytes.kind \in {"xml", "xmlMalformed"}
    THEN [offers |-> bytes.offers, err |-> FALSE]
    ELSE [offers |-> <<>>, err |-> TRUE]

xmlUnmarshal_EmptyIsError(bytes) ==
    IF bytes.kind = "xml" /\ bytes.offers # <<>>
    THEN [offers |-> bytes.offers, err |-> FALSE]
    ELSE [offers |-> <<>>, err |-> TRUE]

\* xml.Unmarshal into YmlCatalog: the offers under shop>offers>offer
xmlUnmarshal(bytes) ==
    IF bytes.kind = "xml" THEN [offers |-> bytes.offers, err |-> FALSE]
    ELSE [offers |-> <<>>, err |-> TRUE]

\* one offer's lines of processAndUploadXML's text block
OfferText(offer) ==
    <<"Name: ">> \o cleanText(offer.Name)
    \o <<"\nDescription: ">> \o cleanText(offer.Description)
    \o <<"\nPrice: ">> \o offer.Price \o <<"\n\n">>

\* the loop of processAndUploadXML over catalog.Offers
CatalogText(offers) == Flatten([i \in 1..Len(offers) |-> OfferText(offers[i])])

\* ------------------------------------------------------- answer composer
\* one match's section of resultsDescription
MatchText(match) ==
    <<"ID: ">> \o match.Id \o <<"\nMetadata: ">> \o MarshalJSON(match.Metadata)
    \o <<"\n\n">>

ResultsDescription(ms) == Flatten([i \in 1..Len(ms) |-> MatchText(ms[i])])

\* the user message of the chat request
Prompt(query, ms) ==
    <<"Here is your query: ">> \o query
    \o <<".\nHere is the data found in Pinecone: ">> \o ResultsDescription(ms)

\* ------------------------------------------------------------- record ids
Digits == <<"0", "1", "2", "3", "4", "5", "6", "7", "8", "9">>

RECURSIVE Itoa(_)
\* %d of a natural number
Itoa(n) == IF n < 10 THEN <<Digits[n + 1]>>
           ELSE Itoa(n \div 10) \o <<Digits[(n % 10) + 1]>>

RecordId_Millis(now) == <<"doc-">> \o Itoa(now * 1000)

\* fmt.Sprintf("doc-%d", time.Now().Unix())
RecordId(now) == <<"doc-">> \o Itoa(now)

\* ------------------------------------------------------------------ state
VARIABLES
    pc,              \* where the handler of the current event stands
    event,           \* the inbound event being handled
    fn,              \* which function runs the chain: OnText or an upload function
    fileBytes,       \* the downloaded file
    fileName,        \* the fileName argument of the upload function
    jsonData,        \* processAndUploadJSON's decoded map
    textContent,     \* the decoded text of the document
    queryEmbedding,  \* the vector the embedding call returned
    matches,         \* the matches the search returned
    calls,           \* the external calls made for the current event, in order
    replies,         \* the replies sent for the current event, in order
    clock,           \* time.Now().Unix()
    uploadIds,       \* ids of the records written by successful upserts
    handled          \* events received so far

vars == <<pc, event, fn, fileBytes, fileName, jsonData, textContent,
          queryEmbedding, matches, calls, replies, clock, uploadIds, handled>>

locals == <<fn, fileBytes, fileName, jsonData, textContent, queryEmbedding, matches>>

NoEvent == [kind |-> "none", text |-> <<>>, fileName |-> <<>>]

Init ==
    /\ pc = "idle"
    /\ event = NoEvent
    /\ fn = "none"
    /\ fileBytes = NoBytes
    /\ fileName = <<>>
    /\ jsonData = EmptyObj
    /\ textContent = <<>>
    /\ queryEmbedding = NoVector
    /\ matches = <<>>
    /\ calls = <<>>
    /\ replies = <<>>
    /\ clock = 0
    /\ uploadIds = <<>>
    /\ handled = 0

Return_NoReturn(msg) ==
    /\ replies' = Append(replies, msg)
    /\ pc' = pc

\* return m.Send(msg): the reply is sent and the handler returns
Return(msg) ==
    /\ replies' = Append(replies, msg)
    /\ pc' = "done"

\* the transport hands the next event to its handler
Receive(ev) ==
    /\ pc = "idle"
    /\ handled < MaxEvents
    /\ handled' = handled + 1
    /\ event' = ev

\* time passes
Tick ==
    /\ pc # "crashed"
    /\ clock < MaxClock
    /\ clock' = clock + 1
    /\ UNCHANGED <<pc, event, locals, calls, replies, uploadIds, handled>>

\* the /start handler
HandleStart ==
    /\ Receive([kind |-> "start", text |-> <<>>, fileName |-> <<>>])
    /\ Return(<<MsgWelcome, appVersion>>)
    /\ UNCHANGED <<locals, calls, clock, uploadIds>>

\* the OnText handler up to its first external call
HandleText ==
    \E userQuery \in Texts :
        /\ Receive([kind |-> "text", text |-> userQuery, fileName |-> <<>>])
        /\ IF isURL(userQuery)
           THEN /\ pc' = "download"
                /\ UNCHANGED <<fn, replies>>
           ELSE IF userQuery = <<>>
           THEN /\ Return(<<MsgEnterQuery>>)
                /\ UNCHANGED fn
           ELSE /\ pc' = "embed"
                /\ fn' = "OnText"
                /\ UNCHANGED replies
        /\ UNCHANGED <<fileBytes, fileName, jsonData, textContent, queryEmbedding,
                       matches, calls, clock, uploadIds>>

\* the OnDocument handler up to its first external call
HandleDocument ==
    \E name \in FileNames :
        /\ Receive([kind |-> "document", text |-> <<>>, fileName |-> name])
        /\ pc' = "download"
        /\ UNCHANGED <<locals, calls, replies, clock, uploadIds>>

Dispatch_DefaultPDF ==
    LET format == IF event.kind = "text" THEN ClassifyURL(event.text)
                  ELSE ClassifyDocument(event.fileName)
    IN  /\ pc' = "decode"
        /\ fn' = IF format = "unknown" THEN "pdf" ELSE format
        /\ fileName' = event.fileName
        /\ UNCHANGED replies

\* what the handler does with a downloaded file: classify, then enter the
\* upload function of the format or reject the file
Dispatch ==
    LET format == IF event.kind = "text" THEN ClassifyURL(event.text)
                  ELSE ClassifyDocument(event.fileName)
    IN  IF format = "unknown"
        THEN /\ Return(IF event.kind = "text" THEN <<MsgUnknownFormatURL>>
                       ELSE <<MsgUnknownFormatDocument>>)
             /\ UNCHANGED <<fn, fileName>>
        ELSE /\ pc' = "decode"
             /\ fn' = format
             /\ fileName' = IF event.kind = "text" THEN ExternalFileName(format)
                            ELSE event.fileName
             /\ UNCHANGED replies

\* downloadFileFromURL / downloadTelegramFile and the classification after it
Download ==
    /\ pc = "download"
    /\ \/ \E err \in (IF event.kind = "text" THEN DownloadURLErrs
                      ELSE DownloadTelegramErrs) :
            /\ calls' = Append(calls, [op |-> "download", ok |-> FALSE, err |-> err])
            /\ Return(<<MsgDownloadFailed, err>>)
            /\ UNCHANGED <<fn, fileBytes, fileName>>
       \/ \E bytes \in Payloads :
            /\ calls' = Append(calls, [op |-> "download", ok |-> TRUE, err |-> "nil"])
            /\ fileBytes' = bytes
            /\ Dispatch
    /\ UNCHANGED <<event, jsonData, textContent, queryEmbedding, matches,
                   clock, uploadIds, handled>>

\* processAndUploadPDF up to the embedding call
DecodePDF ==
    /\ pc = "decode" /\ fn = "pdf"
    /\ LET r == extractTextFromPDF(fileBytes)
       IN  IF r.err
           THEN Return(<<MsgPdfFailed>>) /\ UNCHANGED textContent
           ELSE pc' = "embed" /\ textContent' = r.text /\ UNCHANGED replies
    /\ UNCHANGED <<event, fn, fileBytes, fileName, jsonData, queryEmbedding,
                   matches, calls, clock, uploadIds, handled>>

\* processAndUploadJSON up to the embedding call
DecodeJSON ==
    /\ pc = "decode" /\ fn = "json"
    /\ LET r == jsonUnmarshal(fileBytes)
           t == TextField(r.data)
       IN  IF r.err
           THEN Return(<<MsgJsonFailed>>) /\ UNCHANGED <<jsonData, textContent>>
           ELSE /\ jsonData' = r.data
                /\ IF t.ok
                   THEN pc' = "embed" /\ textContent' = t.text /\ UNCHANGED replies
                   ELSE Return(<<MsgJsonNoText>>) /\ UNCHANGED textContent
    /\ UNCHANGED <<event, fn, fileBytes, fileName, queryEmbedding, matches,
                   calls, clock, uploadIds, handled>>

\* processAndUploadXML up to the embedding call
DecodeXML ==
    /\ pc = "decode" /\ fn = "xml"
    /\ LET r == xmlUnmarshal(fileBytes)
       IN  IF r.err
           THEN Return(<<MsgXmlFailed>>) /\ UNCHANGED textContent
           ELSE pc' = "embed" /\ textContent' = CatalogText(r.offers)
                /\ UNCHANGED replies
    /\ UNCHANGED <<event, fn, fileBytes, fileName, jsonData, queryEmbedding,
                   matches, calls, clock, uploadIds, handled>>

\* the text the running function passes to getQueryEmbeddingFromOpenAI
EmbedInput == IF fn = "OnText" THEN event.text ELSE textContent

\* the reply of the running function when the embedding call fails
EmbedFailedReply(err) ==
    IF fn = "OnText" THEN <<MsgEmbedFailed, err>>
    ELSE IF fn = "pdf" THEN <<MsgPdfEmbedFailed>>
    ELSE IF fn = "json" THEN <<MsgJsonEmbedFailed>>
    ELSE <<MsgXmlEmbedFailed>>

\* getQueryEmbeddingFromOpenAI and the caller's test of its error
Embed ==
    /\ pc = "embed"
    /\ \/ \E err \in EmbedErrs :
            /\ calls' = Append(calls, [op |-> "embed", input |-> EmbedInput,
                                       ok |-> FALSE, vector |-> NoVector])
            /\ Return(EmbedFailedReply(err))
            /\ UNCHANGED queryEmbedding
       \/ \E v \in Vectors :
            /\ calls' = Append(calls, [op |-> "embed", input |-> EmbedInput,
                                       ok |-> TRUE, vector |-> v])
            /\ queryEmbedding' = v
            /\ pc' = IF fn = "OnText" THEN "search" ELSE "upsert"
            /\ UNCHANGED replies
    /\ UNCHANGED <<event, fn, fileBytes, fileName, jsonData, textContent, matches,
                   clock, uploadIds, handled>>

\* the OnText handler's test of the search result: err != nil || len(matches.Matches) == 0
NoMatches_ErrOnly(failed, found) == failed
NoMatches(failed, found) == failed \/ Len(found) = 0

\* searchPinecone and the OnText handler's test of its result
Search ==
    /\ pc = "search"
    /\ \E failed \in BOOLEAN, found \in MatchLists :
            /\ failed => found = <<>>
            /\ calls' = Append(calls, [op |-> "search", input |-> queryEmbedding,
                                       ok |-> ~failed, matches |-> found])
            /\ IF NoMatches(failed, found)
               THEN Return(<<MsgNoMatches>>) /\ UNCHANGED matches
               ELSE pc' = "compose" /\ matches' = found /\ UNCHANGED replies
    /\ UNCHANGED <<event, fn, fileBytes, fileName, jsonData, textContent,
                   queryEmbedding, clock, uploadIds, handled>>

ComposerResult_LastChoice(failed, choices) ==
    IF failed THEN [outcome |-> "error", answer |-> ""]
    ELSE IF Len(choices) = 0 THEN [outcome |-> "panic", answer |-> ""]
    ELSE [outcome |-> "answer", answer |-> choices[Len(choices)]]

\* what generateFinalAnswerFromOpenAI does with the provider's response:
\* an error is returned, resp.Choices[0] of an empty list panics
ComposerResult(failed, choices) ==
    IF failed THEN [outcome |-> "error", answer |-> ""]
    ELSE IF Len(choices) = 0 THEN [outcome |-> "panic", answer |-> ""]
    ELSE [outcome |-> "answer", answer |-> choices[1]]

\* what the OnText handler does with the composer's result; a panic in the
\* handler's goroutine is not recovered and ends the process
Answer(r, err) ==
    IF r.outcome = "panic" THEN pc' = "crashed" /\ UNCHANGED replies
    ELSE IF r.outcome = "error" THEN Return(<<MsgGptFailed, err>>)
    ELSE Return(<<r.answer>>)

\* generateFinalAnswerFromOpenAI and the OnText handler's reply
Compose ==
    /\ pc = "compose"
    /\ LET prompt == Prompt(event.text, matches)
       IN  \/ \E err \in CompletionErrs :
                /\ calls' = Append(calls, [op |-> "completion", input |-> prompt,
                                           ok |-> FALSE, choices |-> <<>>])
                /\ Answer(ComposerResult(TRUE, <<>>), err)
           \/ \E choices \in ChoiceLists :
                /\ calls' = Append(calls, [op |-> "completion", input |-> prompt,
                                           ok |-> TRUE, choices |-> choices])
                /\ Answer(ComposerResult(FALSE, choices), "nil")
    /\ UNCHANGED <<event, locals, clock, uploadIds, handled>>

\* the metadata the running upload function passes to upsertVectorToPinecone
UpsertMetadata ==
    IF fn = "json" THEN jsonData
    ELSE [k \in {"file", "text"} |->
            IF k = "file" THEN JStr(fileName) ELSE JStr(textContent)]

UpsertFailedReply ==
    IF fn = "json" THEN <<MsgJsonUpsertFailed>> ELSE <<MsgUpsertFailed>>

UpsertOkReply ==
    IF fn = "pdf" THEN <<MsgPdfOk>>
    ELSE IF fn = "json" THEN <<MsgJsonOk>>
    ELSE <<MsgXmlOk>>

Record_NoValues(now, embedding, metadata) ==
    [Id |-> RecordId(now), Values |-> NoVector, Metadata |-> metadata]

\* the one vector upsertVectorToPinecone writes
Record(now, embedding, metadata) ==
    [Id |-> RecordId(now), Values |-> embedding, Metadata |-> metadata]

\* upsertVectorToPinecone and the upload function's reply.  The record is
\* sent only when the client and the index connection were created.
Upsert ==
    /\ pc = "upsert"
    /\ LET record == Record(clock, queryEmbedding, UpsertMetadata)
       IN  \/ \E err \in UpsertErrs :
                /\ calls' = Append(calls, [op |-> "upsert", ok |-> FALSE,
                                           sent |-> (err = "ErrUpsertVectors"),
                                           record |-> record])
                /\ Return(UpsertFailedReply)
                /\ UNCHANGED uploadIds
           \/ /\ calls' = Append(calls, [op |-> "upsert", ok |-> TRUE,
                                         sent |-> TRUE, record |-> record])
              /\ uploadIds' = Append(uploadIds, record.Id)
              /\ Return(UpsertOkReply)
    /\ UNCHANGED <<event, locals, clock, handled>>

\* the handler has returned; the transport is ready for the next event
Finish ==
    /\ pc = "done"
    /\ pc' = "idle"
    /\ event' = NoEvent
    /\ fn' = "none"
    /\ fileBytes' = NoBytes
    /\ fileName' = <<>>
    /\ jsonData' = EmptyObj
    /\ textContent' = <<>>
    /\ queryEmbedding' = NoVector
    /\ matches' = <<>>
    /\ calls' = <<>>
    /\ replies' = <<>>
    /\ UNCHANGED <<clock, uploadIds, handled>>

Next ==
    \/ Tick
    \/ HandleStart
    \/ HandleText
    \/ HandleDocument
    \/ Download
    \/ DecodePDF
    \/ DecodeJSON
    \/ DecodeXML
    \/ Embed
    \/ Search
    \/ Compose
    \/ Upsert
    \/ Finish

Spec == Init /\ [][Next]_vars

\* ------------------------------------------- the classifier on its own
\* Names given to isPDF / isJSON / isXML directly: every stem over ClassifyChars
\* up to MaxClassifyStem followed by one of ClassifyTails, so that names made of
\* the suffix alone, names in upper case and names without a dot are included.
\* A document is classified by its file name, a URL by its whole text.
ClassifyChars == {"a", "."}
ClassifyTails ==
    {ExtPDF, ExtJSON, ExtXML, <<".", "P", "D", "F">>, <<".", "t", "x", "t">>,
     <<"p", "d", "f">>, <<".", "x", "m", "l", "s">>, <<".", "j", "s", "o">>, <<>>}
ClassifyNames ==
    {stem \o tail : stem \in SeqsUpTo(ClassifyChars, MaxClassifyStem),
                    tail \in ClassifyTails}

InitClassify ==
    /\ pc = "classify"
    /\ \E name \in ClassifyNames :
          event \in {[kind |-> "document", text |-> <<>>, fileName |-> name],
                     [kind |-> "text", text |-> Http \o name, fileName |-> <<>>]}
    /\ fn = "none"
    /\ fileBytes = NoBytes
    /\ fileName = <<>>
    /\ jsonData = EmptyObj
    /\ textContent = <<>>
    /\ queryEmbedding = NoVector
    /\ matches = <<>>
    /\ calls = <<>>
    /\ replies = <<>>
    /\ clock = 0
    /\ uploadIds = <<>>
    /\ handled = 0

\* the OnDocument handler's classification of file.FileName
ClassifyDocumentStep ==
    /\ pc = "classify" /\ event.kind = "document"
    /\ fn' = ClassifyDocument(event.fileName)
    /\ pc' = "classified"
    /\ UNCHANGED <<event, fileBytes, fileName, jsonData, textContent,
                   queryEmbedding, matches, calls, replies, clock, uploadIds, handled>>

\* the OnText handler's classification of the URL text
ClassifyURLStep ==
    /\ pc = "classify" /\ event.kind = "text"
    /\ fn' = ClassifyURL(event.text)
    /\ pc' = "classified"
    /\ UNCHANGED <<event, fileBytes, fileName, jsonData, textContent,
                   queryEmbedding, matches, calls, replies, clock, uploadIds, handled>>

NextClassify == ClassifyDocumentStep \/ ClassifyURLStep

SpecClassify == InitClassify /\ [][NextClassify]_vars

\* --------------------------------------------------- cleanText on its own
\* Strings given to cleanText directly: every string over CleanChars up to
\* MaxCleanLen, so that nested, unclosed and unopened brackets are included.
\* cleanText is applied to the string and then to its own result.
CleanChars == {"<", ">", "a"}
CleanInputs == SeqsUpTo(CleanChars, MaxCleanLen)

InitClean ==
    /\ pc = "clean"
    /\ \E input \in CleanInputs :
          event = [kind |-> "offer", text |-> input, fileName |-> <<>>]
    /\ fn = "none"
    /\ fileBytes = NoBytes
    /\ fileName = <<>>
    /\ jsonData = EmptyObj
    /\ textContent = <<>>
    /\ queryEmbedding = NoVector
    /\ matches = <<>>
    /\ calls = <<>>
    /\ replies = <<>>
    /\ clock = 0
    /\ uploadIds = <<>>
    /\ handled = 0

\* cleanText(input): first of the given string, then of the result
CleanStep ==
    /\ pc \in {"clean", "cleaned"}
    /\ LET input == IF pc = "clean" THEN event.text ELSE textContent
       IN  /\ textContent' = cleanText(input)
           /\ calls' = Append(calls, [op |-> "cleanText", ok |-> TRUE,
                                      input |-> input, output |-> cleanText(input)])
    /\ pc' = IF pc = "clean" THEN "cleaned" ELSE "cleanedTwice"
    /\ UNCHANGED <<event, fn, fileBytes, fileName, jsonData, queryEmbedding,
                   matches, replies, clock, uploadIds, handled>>

NextClean == CleanStep

SpecClean == InitClean /\ [][NextClean]_vars

\* ================================================================ claims
\* s ends in suffix (the suffix alone included)
HasSuffix(s, suffix) ==
    Len(s) >= Len(suffix) /\ LastN(s, Len(suffix)) = suffix
CallsOf(op) == {i \in DOMAIN calls : calls[i].op = op}
Count(op) == Cardinality(CallsOf(op))
Ops == <<"download", "embed", "search", "completion", "upsert">>
OpsOf(cs) == [i \in DOMAIN cs |-> cs[i].op]
IsPrefix(s, t) == Len(s) <= Len(t) /\ SubSeq(t, 1, Len(s)) = s
Ended == pc \in {"done", "crashed"}

\* C1 (as claimed): whatever the event and the outcomes of the external calls,
\* the handler sends exactly one reply: never more than one while it runs, and
\* exactly one when it has ended.
C1_ExactlyOneReply ==
    /\ Len(replies) <= 1
    /\ Ended => Len(replies) = 1

\* C1: the case the code gets wrong is reached: the handler has ended and sent
\* no reply.
C1_EndedSilent == Ended /\ Len(replies) = 0

\* C2: for a non-empty, non-URL text the calls are, in this order, one
\* embedding call with exactly the message text, one search call with the vector
\* that embedding returned, and, only after a search with at least one match, one
\* completion call whose prompt contains the query and the serialized metadata
\* of every match; each is made as soon as the one before it succeeded, and a
\* reply sent after a completion with choices is the first choice's text alone.
C2_QueryChain ==
    (event.kind = "text" /\ event.text # <<>> /\ ~isURL(event.text)) =>
        /\ IsPrefix(OpsOf(calls), <<"embed", "search", "completion">>)
        /\ pc # "embed" => Len(calls) >= 1
        /\ Len(calls) >= 1 =>
              /\ calls[1].input = event.text
              /\ (calls[1].ok /\ pc # "search") => Len(calls) >= 2
              /\ ~calls[1].ok => Len(calls) = 1
        /\ Len(calls) >= 2 =>
              /\ calls[1].ok /\ calls[2].input = calls[1].vector
              /\ (calls[2].ok /\ Len(calls[2].matches) >= 1 /\ pc # "compose")
                    => Len(calls) = 3
              /\ (~calls[2].ok \/ Len(calls[2].matches) = 0) => Len(calls) = 2
        /\ Len(calls) = 3 =>
              /\ calls[2].ok /\ Len(calls[2].matches) >= 1
              /\ Contains(calls[3].input, event.text)
              /\ \A i \in DOMAIN calls[2].matches :
                    Contains(calls[3].input, MarshalJSON(calls[2].matches[i].Metadata))
              /\ (calls[3].ok /\ calls[3].choices # <<>>) =>
                    /\ pc = "done"
                    /\ replies = << <<calls[3].choices[1]>> >>

\* C2: a query was answered from a completion that returned two different
\* choices, after a search that returned two matches.
C2_Answered ==
    /\ event.kind = "text" /\ pc = "done" /\ Len(calls) = 3
    /\ Len(calls[2].matches) = 2
    /\ Len(calls[3].choices) = 2 /\ calls[3].choices[1] # calls[3].choices[2]
    /\ replies = << <<calls[3].choices[1]>> >>

\* C3: when the search call succeeds with zero matches, the handler has made no
\* completion call, has returned normally, and its one reply is the fixed
\* "no relevant matches" message.
C3_NoMatchesSoft ==
    \A i \in CallsOf("search") :
        (calls[i].ok /\ calls[i].matches = <<>>) =>
            /\ Count("completion") = 0
            /\ pc = "done"
            /\ replies = << <<MsgNoMatches>> >>

\* C3: a search has succeeded with zero matches.
C3_EmptySearch ==
    \E i \in CallsOf("search") : calls[i].ok /\ calls[i].matches = <<>>

\* C4 (as claimed): when the completion call fails, or succeeds with an empty
\* list of choices, the composer returns an error: the process does not crash
\* and the handler's one reply is the completion-failure message.
C4_ComposerReturnsError ==
    \A i \in CallsOf("completion") :
        (~calls[i].ok \/ calls[i].choices = <<>>) =>
            /\ pc = "done"
            /\ Len(replies) = 1 /\ Head(replies[1]) = MsgGptFailed

\* C4: the case is reached: a completion call succeeded with no choices.
C4_NoChoices ==
    \E i \in CallsOf("completion") : calls[i].ok /\ calls[i].choices = <<>>

\* a JSON payload that json.Unmarshal accepts into a map
ParsesAsJSON(bytes) == bytes.kind \in {"jsonObject", "jsonNull"}
\* a parsed JSON payload with a key "text" whose value is a string
HasStringText(bytes) ==
    "text" \in DOMAIN bytes.obj /\ bytes.obj["text"][1] = "string"

\* C5: once processAndUploadJSON has decoded a document that parses but has no
\* string-valued "text" key, the handler has returned with the "no text to
\* vectorize" reply and has made no embedding call and no upsert call.
C5_JsonWithoutText ==
    (fn = "json" /\ pc # "decode" /\ ParsesAsJSON(fileBytes)
        /\ ~HasStringText(fileBytes)) =>
        /\ pc = "done"
        /\ replies = << <<MsgJsonNoText>> >>
        /\ Count("embed") = 0 /\ Count("upsert") = 0

\* C5: a JSON document whose "text" is a number, not a string, was handled by
\* processAndUploadJSON.
C5_NumberText ==
    /\ fn = "json" /\ pc = "done"
    /\ "text" \in DOMAIN fileBytes.obj /\ fileBytes.obj["text"][1] = "number"

\* C6: once an upload function has tried to decode a payload that does not
\* decode for its format (JSON: not an object or null; XML: not a well-formed
\* document), the handler has returned with the "failed to process <format>"
\* reply, no embedding call and no upsert call was made, and no record was
\* written.  (PDF extraction never fails in the code.)
C6_DecodeFailure ==
    LET failedReply ==
            IF fn = "json" THEN <<MsgJsonFailed>>
            ELSE IF fn = "xml" THEN <<MsgXmlFailed>> ELSE <<MsgPdfFailed>>
        undecodable ==
            \/ fn = "json" /\ ~ParsesAsJSON(fileBytes)
            \/ fn = "xml" /\ fileBytes.kind # "xml"
    IN  (pc \notin {"decode", "idle"} /\ undecodable) =>
            /\ pc = "done"
            /\ replies = <<failedReply>>
            /\ Count("embed") = 0 /\ Count("upsert") = 0

\* C6: a malformed XML document that holds an offer before its error was
\* handled by processAndUploadXML.
C6_MalformedXML ==
    /\ fn = "xml" /\ pc = "done"
    /\ fileBytes.kind = "xmlMalformed" /\ Len(fileBytes.offers) >= 1

\* the name the handler classifies, and whether it classifies as Unknown
EventName == IF event.kind = "text" THEN event.text ELSE event.fileName
IsUpload == event.kind = "document" \/ (event.kind = "text" /\ isURL(event.text))
ClassifiedUnknown ==
    /\ IsUpload
    /\ IF event.kind = "text" THEN ClassifyURL(event.text) = "unknown"
       ELSE ClassifyDocument(event.fileName) = "unknown"
NoProcessing ==
    /\ fn = "none" /\ pc # "decode" /\ textContent = <<>>
    /\ Count("embed") = 0 /\ Count("upsert") = 0

\* C7 (as claimed): when the attached file's name, or the URL, classifies as
\* Unknown, the handler's reply is the unsupported-format message and nothing is
\* decoded, embedded or upserted.
C7_UnknownAlwaysRejected ==
    ClassifiedUnknown =>
        /\ NoProcessing
        /\ pc = "done" =>
              replies = IF event.kind = "text" THEN << <<MsgUnknownFormatURL>> >>
                        ELSE << <<MsgUnknownFormatDocument>> >>

\* C7 (amended): when the name classifies as Unknown nothing is decoded,
\* embedded or upserted, and if the download succeeded the handler's one reply
\* is the unsupported-format message; if the download failed the one reply is
\* the download-failure message.
C7_UnknownRejectedAfterDownload ==
    ClassifiedUnknown =>
        /\ NoProcessing
        /\ pc = "done" =>
              /\ Len(calls) = 1 /\ calls[1].op = "download"
              /\ calls[1].ok =>
                    replies = IF event.kind = "text" THEN << <<MsgUnknownFormatURL>> >>
                              ELSE << <<MsgUnknownFormatDocument>> >>
              /\ ~calls[1].ok => replies = << <<MsgDownloadFailed, calls[1].err>> >>

\* C7: a file with an Unknown name was downloaded and rejected.
C7_Rejected ==
    /\ ClassifiedUnknown /\ pc = "done" /\ calls[1].ok
    /\ fileBytes.kind = "jsonObject"

\* C8 (as claimed): the classifier selects PDF exactly for names ending in
\* ".pdf", JSON for ".json", XML for ".xml" and Unknown otherwise, for every
\* name, the suffix alone included, and at most one predicate is true.
C8_SuffixClassification ==
    pc = "classified" =>
        LET name == EventName
        IN  /\ isPDF(name) <=> HasSuffix(name, ExtPDF)
            /\ isJSON(name) <=> HasSuffix(name, ExtJSON)
            /\ isXML(name) <=> HasSuffix(name, ExtXML)
            /\ fn = (IF HasSuffix(name, ExtPDF) THEN "pdf"
                     ELSE IF HasSuffix(name, ExtJSON) THEN "json"
                     ELSE IF HasSuffix(name, ExtXML) THEN "xml"
                     ELSE "unknown")
            /\ Cardinality({p \in {"pdf", "json", "xml"} :
                   \/ p = "pdf" /\ isPDF(name)
                   \/ p = "json" /\ isJSON(name)
                   \/ p = "xml" /\ isXML(name)}) <= 1

\* C8: the case the code gets wrong is reached: a name that is the suffix
\* alone has been classified.
C8_SuffixAlone == pc = "classified" /\ EventName \in {ExtPDF, ExtJSON, ExtXML}

\* C9: within one event each external operation is called at most once, and a
\* failed call is the last call of the event.
C9_OnceAndStop ==
    /\ \A i \in DOMAIN calls : calls[i].op \in {Ops[k] : k \in DOMAIN Ops}
    /\ \A k \in DOMAIN Ops : Count(Ops[k]) <= 1
    /\ \A i \in DOMAIN calls : ~calls[i].ok => (i = Len(calls) /\ pc = "done")

\* C9: an event whose third call failed has ended.
C9_FailedLast == Len(calls) = 3 /\ ~calls[3].ok /\ pc = "done"

\* C10: the metadata of every record passed to the vector store holds a "text"
\* key or a "file" key.
C10_MetadataUseful ==
    \A i \in CallsOf("upsert") :
        LET keys == DOMAIN calls[i].record.Metadata
        IN  "text" \in keys \/ "file" \in keys

\* C10: a record was sent from the JSON path, whose metadata is the document's
\* own map and has no "file" key.
C10_JsonRecordSent ==
    \E i \in CallsOf("upsert") :
        /\ calls[i].sent
        /\ "file" \notin DOMAIN calls[i].record.Metadata

\* C11: once processAndUploadXML has decoded a well-formed catalog with zero
\* offers, the text block is the empty string, the next call is the embedding
\* call with the empty string as its input, and when that call has succeeded
\* the handler goes on to the upsert, whose record carries the empty text.
C11_EmptyCatalogEmbedded ==
    (fn = "xml" /\ pc # "decode" /\ fileBytes.kind = "xml"
        /\ fileBytes.offers = <<>>) =>
        /\ textContent = <<>>
        /\ pc = "embed" => OpsOf(calls) = <<"download">>
        /\ pc # "embed" =>
              /\ Len(calls) >= 2
              /\ calls[2].op = "embed" /\ calls[2].input = <<>>
              /\ ~calls[2].ok => (Len(calls) = 2 /\ replies = << <<MsgXmlEmbedFailed>> >>)
              /\ calls[2].ok =>
                    \/ pc = "upsert" /\ Len(calls) = 2 /\ replies = <<>>
                    \/ /\ Len(calls) = 3 /\ calls[3].op = "upsert"
                       /\ calls[3].record.Metadata["text"] = JStr(<<>>)

\* C11: an empty catalog was embedded and its record was written.
C11_EmptyCatalogUploaded ==
    /\ fn = "xml" /\ fileBytes.kind = "xml" /\ fileBytes.offers = <<>>
    /\ Len(calls) = 3 /\ calls[2].input = <<>> /\ calls[3].ok
    /\ replies = << <<MsgXmlOk>> >>

\* s[j..k] matches the pattern: '<', then characters other than '>', then '>'
IsTag(s, j, k) ==
    /\ j < k /\ s[j] = "<" /\ s[k] = ">"
    /\ \A m \in (j + 1)..(k - 1) : s[m] # ">"
\* position i of s lies in some substring that matches the pattern
InTag(s, i) == \E j \in 1..i, k \in i..Len(s) : IsTag(s, j, k)
RECURSIVE OutsideTags(_, _)
\* the characters of s from position i on that lie in no matching substring
OutsideTags(s, i) ==
    IF i > Len(s) THEN <<>>
    ELSE (IF InTag(s, i) THEN <<>> ELSE <<s[i]>>) \o OutsideTags(s, i + 1)

\* C12: cleanText returns its input without the characters that lie in a
\* substring matching '<', characters other than '>', '>', and with every other
\* character kept in place; its result holds no such substring, and cleanText
\* of the result is the result.
C12_CleanText ==
    /\ \A n \in DOMAIN calls :
          calls[n].op = "cleanText" =>
              /\ calls[n].output = OutsideTags(calls[n].input, 1)
              /\ \A i \in DOMAIN calls[n].output : ~InTag(calls[n].output, i)
    /\ pc = "cleanedTwice" =>
          /\ calls[2].input = calls[1].output
          /\ calls[2].output = calls[1].output

\* C12: cleanText ran twice on a string with a tag that holds a second '<' and
\* a '>' after the tag: "<<>>" gives ">".
C12_NestedBrackets ==
    /\ pc = "cleanedTwice"
    /\ calls[1].input = <<"<", "<", ">", ">">>
    /\ calls[1].output = <<">">>

\* the three replies of each upload function
SuccessReplies == {<<MsgPdfOk>>, <<MsgJsonOk>>, <<MsgXmlOk>>}
EmbedFailureOf(f) ==
    IF f = "pdf" THEN <<MsgPdfEmbedFailed>>
    ELSE IF f = "json" THEN <<MsgJsonEmbedFailed>> ELSE <<MsgXmlEmbedFailed>>
UpsertFailureOf(f) == IF f = "json" THEN <<MsgJsonUpsertFailed>> ELSE <<MsgUpsertFailed>>
SuccessOf(f) ==
    IF f = "pdf" THEN <<MsgPdfOk>> ELSE IF f = "json" THEN <<MsgJsonOk>> ELSE <<MsgXmlOk>>
\* the text the upload function of format f decodes from the file
DecodedText(f, bytes) ==
    IF f = "pdf" THEN <<"Text from PDF">>
    ELSE IF f = "json" THEN bytes.obj["text"][2]
    ELSE CatalogText(bytes.offers)

\* C13: in an upload function the calls after the download are, in this order,
\* the embedding call on the decoded text and the upsert call; the upsert call
\* is made only after the embedding call succeeded and its record carries the
\* vector that call returned; the success reply is sent only after the upsert
\* succeeded; a failed embedding or upsert gives that function's failure reply
\* as the only reply.
C13_DecodeEmbedUpsert ==
    /\ \A i \in DOMAIN replies :
          replies[i] \in SuccessReplies =>
              /\ fn \in {"pdf", "json", "xml"} /\ replies = <<SuccessOf(fn)>>
              /\ Len(calls) = 3 /\ calls[3].op = "upsert" /\ calls[3].ok
    /\ fn \in {"pdf", "json", "xml"} =>
          /\ IsPrefix(OpsOf(calls), <<"download", "embed", "upsert">>)
          /\ calls[1].ok
          /\ Len(calls) >= 2 =>
                /\ calls[2].input = DecodedText(fn, fileBytes)
                /\ ~calls[2].ok =>
                      Len(calls) = 2 /\ pc = "done" /\ replies = <<EmbedFailureOf(fn)>>
                /\ (calls[2].ok /\ Len(calls) = 2) => (pc = "upsert" /\ replies = <<>>)
          /\ Len(calls) = 3 =>
                /\ calls[2].ok /\ calls[2].vector \in Vectors
                /\ calls[3].record.Values = calls[2].vector
                /\ pc = "done"
                /\ replies = IF calls[3].ok THEN <<SuccessOf(fn)>>
                             ELSE <<UpsertFailureOf(fn)>>

\* C13: a JSON document was uploaded with the second vector of the provider,
\* and the success reply was sent.
C13_Uploaded ==
    /\ fn = "json" /\ pc = "done" /\ Len(calls) = 3
    /\ calls[2].vector = NumVectors /\ calls[3].ok
    /\ replies = << <<MsgJsonOk>> >>

\* the step makes an upsert call
UpsertCalled == Len(calls') = Len(calls) + 1 /\ calls'[Len(calls')].op = "upsert"

====
